---- MODULE Spec2Model ----
(***************************************************************************)
(* home-display-agent: an MCP server whose tools are forwarded, one HTTP   *)
(* request each, to five backend services.  The model covers the tool      *)
(* catalogue and dispatcher of src/main.py (create_server, call_tool,      *)
(* _execute_tool), the per-backend handlers of src/tools/*.py and the      *)
(* configuration of src/config.py.                                         *)
(***************************************************************************)
EXTENDS Integers, Sequences, FiniteSets, TLC

VARIABLES env, config, startup, listed, inv, failures

vars == <<env, config, startup, listed, inv, failures>>

(***************************************************************************)
(* JSON values as the handlers see them (Python objects).  Every value has *)
(* the same shape so that values of different JSON types can be compared.  *)
(* An object is identified by its number of entries and its rendering.     *)
(***************************************************************************)
JInt(n) == [type |-> "int", int |-> n, str |-> ""]
JStr(s) == [type |-> "str", int |-> 0, str |-> s]
JObj(n, s) == [type |-> "dict", int |-> n, str |-> s]
JNull == [type |-> "None", int |-> 0, str |-> ""]

\* Python truth value of an object: bool(v), as used by "if width:".
Truthy(v) ==
    CASE v.type = "int" -> v.int # 0
      [] v.type = "str" -> v.str # ""
      [] v.type = "dict" -> v.int # 0
      [] OTHER -> FALSE

\* str(v) / f"{v}" of a Python object.
PyFormat(v) ==
    CASE v.type = "int" -> ToString(v.int)
      [] v.type = "str" -> v.str
      [] v.type = "dict" -> v.str
      [] OTHER -> "None"

\* repr(v), the form str(KeyError(v)) takes.
PyRepr(v) == IF v.type = "str" THEN "'" \o v.str \o "'" ELSE PyFormat(v)

(***************************************************************************)
(* Argument objects (Python dicts): functions from the supplied keys to    *)
(* JSON values.  A key that is not supplied is not in the domain.          *)
(***************************************************************************)
EmptyDict == [k \in {} |-> JNull]

\* dict.get(key, default)
Get(d, key, default) == IF key \in DOMAIN d THEN d[key] ELSE default

\* dict.get(key): None when the key is absent
GetOrNone(d, key) == Get(d, key, JNull)

\* The values the model supplies for each argument key; they include the
\* falsy values 0, "", {} and null.
ValuesOf(key) ==
    CASE key = "source" -> {JStr("a.jpg")}
      [] key = "duration" -> {JInt(0), JInt(30)}
      [] key = "job_id" -> {JStr("j1"), JInt(7)}
      [] key = "width" -> {JInt(0), JInt(800)}
      [] key = "height" -> {JInt(0), JInt(600)}
      [] key = "format" -> {JStr("png")}
      [] key = "quality" -> {JInt(50)}
      [] key = "template" -> {JStr("clock")}
      [] key = "data" -> {JObj(1, "{'city': 'Oslo'}")}
      [] key = "job_type" -> {JStr("video")}
      [] key = "priority" -> {JInt(9)}
      [] key = "options" -> {JObj(0, "{}"), JObj(1, "{'x': 1}"), JNull}
      [] key = "limit" -> {JInt(0), JInt(25)}
      [] key = "service" -> {JStr(""), JStr("overlay")}
      [] key = "period" -> {JStr("24h")}
      [] OTHER -> {JInt(1)}

RECURSIVE Dicts(_)
\* Every dict over a subset of keys, with values from ValuesOf.
Dicts(keys) ==
    IF keys = {} THEN {EmptyDict}
    ELSE LET k == CHOOSE x \in keys : TRUE
             rest == Dicts(keys \ {k})
         IN  rest \cup {(k :> v) @@ d : v \in ValuesOf(k), d \in rest}

(***************************************************************************)
(* Configuration (src/config.py).  An environment maps a variable name to  *)
(* its value; an unset variable is not in its domain.                      *)
(***************************************************************************)
\* os.getenv(name, default)
getenv(e, name, default) == IF name \in DOMAIN e THEN e[name] ELSE default

ServiceConfig(e) ==
    [audio_id_url |-> getenv(e, "AUDIO_ID_URL", "http://audio-id:8000"),
     image_opt_url |-> getenv(e, "IMAGE_OPT_URL", "http://image-opt:8000"),
     overlay_url |-> getenv(e, "OVERLAY_URL", "http://overlay:8000"),
     dispatcher_url |-> getenv(e, "DISPATCHER_URL", "http://dispatcher:8000"),
     monitor_url |-> getenv(e, "MONITOR_URL", "http://monitor:8000")]

\* int(text) of Python for the port texts of the model: the integer a
\* decimal literal denotes, a ValueError for any other text.
int_ok(text) == text \in {"5672", "5673"}
int(text) == IF text = "5672" THEN 5672 ELSE 5673

RabbitMQConfig(e) ==
    [host |-> getenv(e, "RABBITMQ_HOST", "rabbitmq"),
     port |-> int(getenv(e, "RABBITMQ_PORT", "5672")),
     user |-> getenv(e, "RABBITMQ_USER", "guest"),
     password |-> getenv(e, "RABBITMQ_PASSWORD", "guest")]

SambaConfig(e) ==
    [host |-> getenv(e, "SAMBA_HOST", "samba"),
     share |-> getenv(e, "SAMBA_SHARE", "media"),
     user |-> getenv(e, "SAMBA_USER", "guest"),
     password |-> getenv(e, "SAMBA_PASSWORD", "")]

Config(e) ==
    [services |-> ServiceConfig(e),
     rabbitmq |-> RabbitMQConfig(e),
     samba |-> SambaConfig(e),
     log_level |-> getenv(e, "LOG_LEVEL", "INFO")]

\* No configuration: load_config() has not returned one.
NoConfig ==
    [services |-> [audio_id_url |-> "", image_opt_url |-> "", overlay_url |-> "",
                   dispatcher_url |-> "", monitor_url |-> ""],
     rabbitmq |-> [host |-> "", port |-> 0, user |-> "", password |-> ""],
     samba |-> [host |-> "", share |-> "", user |-> "", password |-> ""],
     log_level |-> ""]

\* load_config(): Config(), whose default factories read the environment.
\* The factory of rabbitmq.port calls int() on the text of RABBITMQ_PORT
\* and raises ValueError when it is not a decimal literal.
load_config(e) ==
    LET port == getenv(e, "RABBITMQ_PORT", "5672")
    IN  IF int_ok(port)
        THEN [raises |-> FALSE, exc |-> [type |-> "", msg |-> ""],
              config |-> Config(e)]
        ELSE [raises |-> TRUE,
              exc |-> [type |-> "ValueError",
                       msg |-> "invalid literal for int() with base 10: '"
                               \o port \o "'"],
              config |-> NoConfig]

\* The environments the server is started in: nothing set, one URL set,
\* every URL set.
Environments ==
    {[k \in {} |-> ""],
     [k \in {"AUDIO_ID_URL"} |-> "http://10.0.0.5:9000"],
     [k \in {"AUDIO_ID_URL", "IMAGE_OPT_URL", "OVERLAY_URL", "DISPATCHER_URL",
             "MONITOR_URL", "LOG_LEVEL"} |->
         CASE k = "AUDIO_ID_URL" -> "http://gw:8080/audio"
           [] k = "IMAGE_OPT_URL" -> "http://gw:8080/image"
           [] k = "OVERLAY_URL" -> "http://gw:8080/overlay"
           [] k = "DISPATCHER_URL" -> "http://gw:8080/jobs"
           [] k = "MONITOR_URL" -> "http://gw:8080/monitor"
           [] OTHER -> "DEBUG"]}

(***************************************************************************)
(* Tool catalogue (create_server.TOOLS): name, the keys of the input       *)
(* schema's properties, and its required keys, in the order of the list.   *)
(***************************************************************************)
Tool(name, properties, required) ==
    [name |-> name, properties |-> properties, required |-> required]

TOOLS ==
    << Tool("audio_identify", {"source", "duration"}, {"source"}),
       Tool("audio_status", {"job_id"}, {"job_id"}),
       Tool("image_optimize", {"source", "width", "height", "format", "quality"},
            {"source"}),
       Tool("image_info", {"source"}, {"source"}),
       Tool("overlay_create", {"template", "data", "width", "height"},
            {"template", "data"}),
       Tool("overlay_list_templates", {}, {}),
       Tool("overlay_preview", {"template", "data"}, {"template", "data"}),
       Tool("dispatcher_enqueue", {"job_type", "source", "priority", "options"},
            {"job_type", "source"}),
       Tool("dispatcher_queue_status", {}, {}),
       Tool("dispatcher_job_status", {"job_id"}, {"job_id"}),
       Tool("dispatcher_cancel", {"job_id"}, {"job_id"}),
       Tool("monitor_health", {}, {}),
       Tool("monitor_stream_status", {}, {}),
       Tool("monitor_failures", {"limit", "service"}, {}),
       Tool("monitor_metrics", {"period"}, {}) >>

\* Faulty variant of list_tools: the last definition is replaced by a second copy
\* of the first.
list_tools_duplicate == SubSeq(TOOLS, 1, Len(TOOLS) - 1) \o <<TOOLS[1]>>


list_tools == TOOLS

(***************************************************************************)
(* Outbound requests and exceptions.                                       *)
(***************************************************************************)
NoDict == [present |-> FALSE, value |-> EmptyDict]
Some(d) == [present |-> TRUE, value |-> d]

\* client.post(url, json=payload) / client.get(url, params=params) /
\* client.delete(url): one request handed to the transport.
Request(method, url, json, params, timeout) ==
    [method |-> method, url |-> url, json |-> json, params |-> params,
     timeout |-> timeout]

NoRequest == Request("", "", NoDict, NoDict, 0)

Exc(type, msg) == [type |-> type, msg |-> msg]
NoExc == Exc("", "")

\* arguments[key] on a dict that lacks key: KeyError, whose str() is repr(key)
KeyError(key) == Exc("KeyError", PyRepr(JStr(key)))
ValueError(msg) == Exc("ValueError", msg)

\* What a handler has done when it reaches its await (or fails before it).
Raises(exc) == [raises |-> TRUE, exc |-> exc, req |-> NoRequest]
Sends(req) == [raises |-> FALSE, exc |-> NoExc, req |-> req]

\* The first of the subscripted keys, in evaluation order, that the
\* arguments lack; "" when none is missing.
FirstMissing(arguments, keys) ==
    LET missing == {i \in 1..Len(keys) : keys[i] \notin DOMAIN arguments}
    IN  IF missing = {} THEN ""
        ELSE keys[CHOOSE i \in missing : \A j \in missing : i <= j]

\* Evaluate the subscripts arguments[k] of a branch in order, then the send.
Subscript(arguments, keys, plan) ==
    IF FirstMissing(arguments, keys) # ""
    THEN Raises(KeyError(FirstMissing(arguments, keys)))
    ELSE plan

(***************************************************************************)
(* src/main.py, _execute_tool: one operator per branch of the if/elif      *)
(* chain, giving the request the branch sends (or the exception it raises  *)
(* before sending).  The client is created with timeout=60.0 and no branch *)
(* passes a timeout of its own.                                            *)
(***************************************************************************)
exec_audio_identify(arguments, cfg) ==
    Subscript(arguments, <<"source">>,
      Sends(Request("POST", cfg.services.audio_id_url \o "/identify",
        Some(("source" :> arguments["source"])
             @@ ("duration" :> Get(arguments, "duration", JInt(10)))),
        NoDict, 60)))

\* Faulty variant of exec_audio_status: arguments.get("job_id") in place of
\* arguments["job_id"].
exec_audio_status_get(arguments, cfg) ==
    Sends(Request("GET",
      cfg.services.audio_id_url \o "/status/"
        \o PyFormat(GetOrNone(arguments, "job_id")),
      NoDict, NoDict, 60))


exec_audio_status(arguments, cfg) ==
    Subscript(arguments, <<"job_id">>,
      Sends(Request("GET",
        cfg.services.audio_id_url \o "/status/" \o PyFormat(arguments["job_id"]),
        NoDict, NoDict, 60)))

exec_image_optimize(arguments, cfg) ==
    Subscript(arguments, <<"source">>,
      LET payload == ("source" :> arguments["source"])
                     @@ ("format" :> Get(arguments, "format", JStr("webp")))
                     @@ ("quality" :> Get(arguments, "quality", JInt(85)))
          withWidth == IF "width" \in DOMAIN arguments
                       THEN ("width" :> arguments["width"]) @@ payload
                       ELSE payload
          withHeight == IF "height" \in DOMAIN arguments
                        THEN ("height" :> arguments["height"]) @@ withWidth
                        ELSE withWidth
      IN  Sends(Request("POST", cfg.services.image_opt_url \o "/optimize",
                        Some(withHeight), NoDict, 60)))

\* Faulty variant of exec_image_info: arguments.get("source") in place of
\* arguments["source"], so the request goes out without the source.
exec_image_info_get(arguments, cfg) ==
    Sends(Request("POST", cfg.services.image_opt_url \o "/info",
                  Some(("source" :> GetOrNone(arguments, "source"))),
                  NoDict, 60))

exec_image_info(arguments, cfg) ==
    Subscript(arguments, <<"source">>,
      Sends(Request("POST", cfg.services.image_opt_url \o "/info",
        Some("source" :> arguments["source"]), NoDict, 60)))

\* Faulty variant of exec_overlay_create: width and height go out only
\* when supplied (arguments.get("width") and a presence test).
exec_overlay_create_no_defaults(arguments, cfg) ==
    Subscript(arguments, <<"template", "data">>,
      LET payload == ("template" :> arguments["template"])
                     @@ ("data" :> arguments["data"])
          withWidth == IF "width" \in DOMAIN arguments
                       THEN ("width" :> arguments["width"]) @@ payload
                       ELSE payload
          withHeight == IF "height" \in DOMAIN arguments
                        THEN ("height" :> arguments["height"]) @@ withWidth
                        ELSE withWidth
      IN  Sends(Request("POST", cfg.services.overlay_url \o "/create",
                        Some(withHeight), NoDict, 60)))

exec_overlay_create(arguments, cfg) ==
    Subscript(arguments, <<"template", "data">>,
      Sends(Request("POST", cfg.services.overlay_url \o "/create",
        Some(("template" :> arguments["template"])
             @@ ("data" :> arguments["data"])
             @@ ("width" :> Get(arguments, "width", JInt(1920)))
             @@ ("height" :> Get(arguments, "height", JInt(1080)))),
        NoDict, 60)))

exec_overlay_list_templates(arguments, cfg) ==
    Sends(Request("GET", cfg.services.overlay_url \o "/templates",
                  NoDict, NoDict, 60))

\* Faulty variant of exec_overlay_preview: the whole argument object is
\* sent as the body (json=arguments).
exec_overlay_preview_forwards_all(arguments, cfg) ==
    Subscript(arguments, <<"template", "data">>,
      Sends(Request("POST", cfg.services.overlay_url \o "/preview",
        Some(arguments), NoDict, 60)))

exec_overlay_preview(arguments, cfg) ==
    Subscript(arguments, <<"template", "data">>,
      Sends(Request("POST", cfg.services.overlay_url \o "/preview",
        Some(("template" :> arguments["template"])
             @@ ("data" :> arguments["data"])),
        NoDict, 60)))

exec_dispatcher_enqueue(arguments, cfg) ==
    Subscript(arguments, <<"job_type", "source">>,
      LET payload == ("job_type" :> arguments["job_type"])
                     @@ ("source" :> arguments["source"])
                     @@ ("priority" :> Get(arguments, "priority", JInt(5)))
          withOptions == IF "options" \in DOMAIN arguments
                         THEN ("options" :> arguments["options"]) @@ payload
                         ELSE payload
      IN  Sends(Request("POST", cfg.services.dispatcher_url \o "/enqueue",
                        Some(withOptions), NoDict, 60)))

exec_dispatcher_queue_status(arguments, cfg) ==
    Sends(Request("GET", cfg.services.dispatcher_url \o "/queue/status",
                  NoDict, NoDict, 60))

exec_dispatcher_job_status(arguments, cfg) ==
    Subscript(arguments, <<"job_id">>,
      Sends(Request("GET",
        cfg.services.dispatcher_url \o "/job/" \o PyFormat(arguments["job_id"]),
        NoDict, NoDict, 60)))

\* Faulty variant of exec_dispatcher_cancel: the branch copied from
\* dispatcher_job_status keeps client.get.
exec_dispatcher_cancel_get(arguments, cfg) ==
    Subscript(arguments, <<"job_id">>,
      Sends(Request("GET",
        cfg.services.dispatcher_url \o "/job/" \o PyFormat(arguments["job_id"]),
        NoDict, NoDict, 60)))


exec_dispatcher_cancel(arguments, cfg) ==
    Subscript(arguments, <<"job_id">>,
      Sends(Request("DELETE",
        cfg.services.dispatcher_url \o "/job/" \o PyFormat(arguments["job_id"]),
        NoDict, NoDict, 60)))

\* Faulty variant of exec_monitor_health: the URL is built from the
\* dispatcher's base URL.
exec_monitor_health_dispatcher(arguments, cfg) ==
    Sends(Request("GET", cfg.services.dispatcher_url \o "/health",
                  NoDict, NoDict, 60))

exec_monitor_health(arguments, cfg) ==
    Sends(Request("GET", cfg.services.monitor_url \o "/health",
                  NoDict, NoDict, 60))

exec_monitor_stream_status(arguments, cfg) ==
    Sends(Request("GET", cfg.services.monitor_url \o "/stream/status",
                  NoDict, NoDict, 60))

exec_monitor_failures(arguments, cfg) ==
    LET params == "limit" :> Get(arguments, "limit", JInt(10))
        withService == IF "service" \in DOMAIN arguments
                       THEN ("service" :> arguments["service"]) @@ params
                       ELSE params
    IN  Sends(Request("GET", cfg.services.monitor_url \o "/failures",
                      NoDict, Some(withService), 60))

exec_monitor_metrics(arguments, cfg) ==
    Sends(Request("GET", cfg.services.monitor_url \o "/metrics", NoDict,
                  Some("period" :> Get(arguments, "period", JStr("1h"))), 60))

\* The final else of the chain.
exec_unknown(name) == Raises(ValueError("Unknown tool: " \o name))

\* The if/elif chain on the tool name, in the order of the source.
_execute_tool(name, arguments, cfg) ==
    CASE name = "audio_identify" -> exec_audio_identify(arguments, cfg)
      [] name = "audio_status" -> exec_audio_status(arguments, cfg)
      [] name = "image_optimize" -> exec_image_optimize(arguments, cfg)
      [] name = "image_info" -> exec_image_info(arguments, cfg)
      [] name = "overlay_create" -> exec_overlay_create(arguments, cfg)
      [] name = "overlay_list_templates" ->
             exec_overlay_list_templates(arguments, cfg)
      [] name = "overlay_preview" -> exec_overlay_preview(arguments, cfg)
      [] name = "dispatcher_enqueue" -> exec_dispatcher_enqueue(arguments, cfg)
      [] name = "dispatcher_queue_status" ->
             exec_dispatcher_queue_status(arguments, cfg)
      [] name = "dispatcher_job_status" ->
             exec_dispatcher_job_status(arguments, cfg)
      [] name = "dispatcher_cancel" -> exec_dispatcher_cancel(arguments, cfg)
      [] name = "monitor_health" -> exec_monitor_health(arguments, cfg)
      [] name = "monitor_stream_status" ->
             exec_monitor_stream_status(arguments, cfg)
      [] name = "monitor_failures" -> exec_monitor_failures(arguments, cfg)
      [] name = "monitor_metrics" -> exec_monitor_metrics(arguments, cfg)
      [] OTHER -> exec_unknown(name)

\* The names the chain of _execute_tool compares against, in its order.
BRANCHES ==
    << "audio_identify", "audio_status", "image_optimize", "image_info",
       "overlay_create", "overlay_list_templates", "overlay_preview",
       "dispatcher_enqueue", "dispatcher_queue_status", "dispatcher_job_status",
       "dispatcher_cancel", "monitor_health", "monitor_stream_status",
       "monitor_failures", "monitor_metrics" >>

(***************************************************************************)
(* src/tools/*.py: the per-backend handlers registered by                  *)
(* register_*_tools.  Each closes over base_url, creates a client without  *)
(* a timeout and passes timeout= on the request.                           *)
(***************************************************************************)
audio_identify(base_url, source, duration) ==
    Sends(Request("POST", base_url \o "/identify",
      Some(("source" :> source) @@ ("duration" :> duration)), NoDict, 30))

audio_status(base_url, job_id) ==
    Sends(Request("GET", base_url \o "/status/" \o PyFormat(job_id),
                  NoDict, NoDict, 10))

call_audio_tool(name, arguments, base_url) ==
    CASE name = "audio_identify" ->
           Subscript(arguments, <<"source">>,
             audio_identify(base_url, arguments["source"],
                            Get(arguments, "duration", JInt(10))))
      [] name = "audio_status" ->
           Subscript(arguments, <<"job_id">>,
             audio_status(base_url, arguments["job_id"]))
      [] OTHER -> Raises(ValueError("Unknown audio tool: " \o name))

image_optimize(base_url, source, width, height, fmt, quality) ==
    LET payload == ("source" :> source) @@ ("format" :> fmt)
                   @@ ("quality" :> quality)
        withWidth == IF Truthy(width) THEN ("width" :> width) @@ payload
                     ELSE payload
        withHeight == IF Truthy(height) THEN ("height" :> height) @@ withWidth
                      ELSE withWidth
    IN  Sends(Request("POST", base_url \o "/optimize", Some(withHeight),
                      NoDict, 60))

image_info(base_url, source) ==
    Sends(Request("POST", base_url \o "/info", Some("source" :> source),
                  NoDict, 30))

call_image_tool(name, arguments, base_url) ==
    CASE name = "image_optimize" ->
           Subscript(arguments, <<"source">>,
             image_optimize(base_url, arguments["source"],
                            GetOrNone(arguments, "width"),
                            GetOrNone(arguments, "height"),
                            Get(arguments, "format", JStr("webp")),
                            Get(arguments, "quality", JInt(85))))
      [] name = "image_info" ->
           Subscript(arguments, <<"source">>,
             image_info(base_url, arguments["source"]))
      [] OTHER -> Raises(ValueError("Unknown image tool: " \o name))

overlay_create(base_url, template, data, width, height) ==
    Sends(Request("POST", base_url \o "/create",
      Some(("template" :> template) @@ ("data" :> data)
           @@ ("width" :> width) @@ ("height" :> height)), NoDict, 30))

overlay_list_templates(base_url) ==
    Sends(Request("GET", base_url \o "/templates", NoDict, NoDict, 10))

overlay_preview(base_url, template, data) ==
    Sends(Request("POST", base_url \o "/preview",
      Some(("template" :> template) @@ ("data" :> data)), NoDict, 30))

call_overlay_tool(name, arguments, base_url) ==
    CASE name = "overlay_create" ->
           Subscript(arguments, <<"template", "data">>,
             overlay_create(base_url, arguments["template"], arguments["data"],
                            Get(arguments, "width", JInt(1920)),
                            Get(arguments, "height", JInt(1080))))
      [] name = "overlay_list_templates" -> overlay_list_templates(base_url)
      [] name = "overlay_preview" ->
           Subscript(arguments, <<"template", "data">>,
             overlay_preview(base_url, arguments["template"],
                             arguments["data"]))
      [] OTHER -> Raises(ValueError("Unknown overlay tool: " \o name))

dispatcher_enqueue(base_url, job_type, source, priority, options) ==
    LET payload == ("job_type" :> job_type) @@ ("source" :> source)
                   @@ ("priority" :> priority)
        withOptions == IF Truthy(options) THEN ("options" :> options) @@ payload
                       ELSE payload
    IN  Sends(Request("POST", base_url \o "/enqueue", Some(withOptions),
                      NoDict, 10))

dispatcher_queue_status(base_url) ==
    Sends(Request("GET", base_url \o "/queue/status", NoDict, NoDict, 10))

dispatcher_job_status(base_url, job_id) ==
    Sends(Request("GET", base_url \o "/job/" \o PyFormat(job_id),
                  NoDict, NoDict, 10))

dispatcher_cancel(base_url, job_id) ==
    Sends(Request("DELETE", base_url \o "/job/" \o PyFormat(job_id),
                  NoDict, NoDict, 10))

call_dispatcher_tool(name, arguments, base_url) ==
    CASE name = "dispatcher_enqueue" ->
           Subscript(arguments, <<"job_type", "source">>,
             dispatcher_enqueue(base_url, arguments["job_type"],
                                arguments["source"],
                                Get(arguments, "priority", JInt(5)),
                                GetOrNone(arguments, "options")))
      [] name = "dispatcher_queue_status" -> dispatcher_queue_status(base_url)
      [] name = "dispatcher_job_status" ->
           Subscript(arguments, <<"job_id">>,
             dispatcher_job_status(base_url, arguments["job_id"]))
      [] name = "dispatcher_cancel" ->
           Subscript(arguments, <<"job_id">>,
             dispatcher_cancel(base_url, arguments["job_id"]))
      [] OTHER -> Raises(ValueError("Unknown dispatcher tool: " \o name))

monitor_health(base_url) ==
    Sends(Request("GET", base_url \o "/health", NoDict, NoDict, 10))

monitor_stream_status(base_url) ==
    Sends(Request("GET", base_url \o "/stream/status", NoDict, NoDict, 10))

monitor_failures(base_url, limit, service) ==
    LET params == "limit" :> limit
        withService == IF Truthy(service) THEN ("service" :> service) @@ params
                       ELSE params
    IN  Sends(Request("GET", base_url \o "/failures", NoDict,
                      Some(withService), 10))

monitor_metrics(base_url, period) ==
    Sends(Request("GET", base_url \o "/metrics", NoDict,
                  Some("period" :> period), 10))

call_monitor_tool(name, arguments, base_url) ==
    CASE name = "monitor_health" -> monitor_health(base_url)
      [] name = "monitor_stream_status" -> monitor_stream_status(base_url)
      [] name = "monitor_failures" ->
           monitor_failures(base_url, Get(arguments, "limit", JInt(10)),
                            GetOrNone(arguments, "service"))
      [] name = "monitor_metrics" ->
           monitor_metrics(base_url, Get(arguments, "period", JStr("1h")))
      [] OTHER -> Raises(ValueError("Unknown monitor tool: " \o name))

\* The handlers that may be registered with the server, and the base URL
\* each per-backend handler captured at registration.
HANDLERS ==
    {"call_tool", "call_audio_tool", "call_image_tool", "call_overlay_tool",
     "call_dispatcher_tool", "call_monitor_tool"}

\* What handler does with (name, arguments) up to its await.
Dispatch(handler, name, arguments, cfg) ==
    CASE handler = "call_tool" -> _execute_tool(name, arguments, cfg)
      [] handler = "call_audio_tool" ->
           call_audio_tool(name, arguments, cfg.services.audio_id_url)
      [] handler = "call_image_tool" ->
           call_image_tool(name, arguments, cfg.services.image_opt_url)
      [] handler = "call_overlay_tool" ->
           call_overlay_tool(name, arguments, cfg.services.overlay_url)
      [] handler = "call_dispatcher_tool" ->
           call_dispatcher_tool(name, arguments, cfg.services.dispatcher_url)
      [] handler = "call_monitor_tool" ->
           call_monitor_tool(name, arguments, cfg.services.monitor_url)

(***************************************************************************)
(* What the transport hands back for a request (httpx): a response with a  *)
(* status code and a raw body, or a network-level exception                *)
(* (httpx.RequestError: connection refused, timeout, DNS failure).         *)
(***************************************************************************)
Response(status, text) ==
    [kind |-> "response", status_code |-> status, text |-> text, exc |-> NoExc]
Failure(type, msg) ==
    [kind |-> "error", status_code |-> 0, text |-> "", exc |-> Exc(type, msg)]
NoAnswer == [kind |-> "", status_code |-> 0, text |-> "", exc |-> NoExc]

STATUSES == {200, 201, 301, 404, 500}
BODIES == {"{\"ok\": true}", "[1, 2]", "7", "boom", ""}
NETWORK_ERRORS ==
    {Failure("ConnectError", "All connection attempts failed"),
     Failure("ConnectError", "[Errno -2] Name or service not known"),
     Failure("ReadTimeout", "")}

ANSWERS == {Response(st, b) : st \in STATUSES, b \in BODIES} \cup NETWORK_ERRORS

\* Faulty variant of is_success: only 4xx and 5xx count as errors.
is_success_below_400(status) == status < 400

\* response.raise_for_status(): HTTPStatusError unless the status is 2xx.
is_success(status) == status >= 200 /\ status <= 299

\* response.json(): the decoded body, or a JSONDecodeError (a ValueError)
\* when the body is not JSON.  A decoded value is a Python object: a dict
\* with its members in the order of the body, a list, or a scalar.  The
\* value of a member and a scalar are kept as Python writes them (True,
\* None, 'done').
Member(key, value) == [key |-> key, value |-> value]
PyDict(members) == [type |-> "dict", members |-> members, scalar |-> ""]
PyList(values) ==
    [type |-> "list", scalar |-> "",
     members |-> [k \in 1..Len(values) |-> Member("", values[k])]]
PyScalar(type, text) == [type |-> type, members |-> <<>>, scalar |-> text]

JSON_BODIES ==
    {"{\"ok\": true}", "[1, 2]", "7", "{}", "null", "\"ok\"",
     "{\"status\": \"done\", \"job_id\": \"j1\", \"error\": null}"}

json_ok(text) == text \in JSON_BODIES

json(text) ==
    CASE text = "{\"ok\": true}" -> PyDict(<<Member("ok", "True")>>)
      [] text = "[1, 2]" -> PyList(<<"1", "2">>)
      [] text = "7" -> PyScalar("int", "7")
      [] text = "{}" -> PyDict(<<>>)
      [] text = "null" -> PyScalar("None", "None")
      [] text = "\"ok\"" -> PyScalar("str", "ok")
      [] text = "{\"status\": \"done\", \"job_id\": \"j1\", \"error\": null}" ->
             PyDict(<<Member("status", "'done'"), Member("job_id", "'j1'"),
                      Member("error", "None")>>)

\* str(value) of a decoded value, as the pieces Python writes one after the
\* other: {'status': 'done', 'job_id': 'j1', 'error': None}.
RECURSIVE str_members(_, _)
str_members(value, k) ==
    IF k > Len(value.members) THEN <<>>
    ELSE (IF k > 1 THEN <<", ">> ELSE <<>>)
         \o (IF value.type = "dict"
             THEN <<"'", value.members[k].key, "'", ": ">> ELSE <<>>)
         \o <<value.members[k].value>>
         \o str_members(value, k + 1)

\* Faulty variant of str: members whose value is None are left out.
str_without_none(value) ==
    CASE value.type = "dict" ->
             <<"{">> \o str_members(
                 [value EXCEPT !.members =
                     SelectSeq(value.members, LAMBDA m : m.value # "None")], 1)
                 \o <<"}">>
      [] value.type = "list" -> <<"[">> \o str_members(value, 1) \o <<"]">>
      [] OTHER -> <<value.scalar>>

str(value) ==
    CASE value.type = "dict" -> <<"{">> \o str_members(value, 1) \o <<"}">>
      [] value.type = "list" -> <<"[">> \o str_members(value, 1) \o <<"]">>
      [] OTHER -> <<value.scalar>>

JSONDecodeError == Exc("JSONDecodeError", "Expecting value: line 1 column 1 (char 0)")
HTTPStatusError == Exc("HTTPStatusError", "")

\* How the body of a handler ends once the transport has answered:
\* the exception it raises, or the value it returns.
Raised(exc) == [raises |-> TRUE, exc |-> exc, value |-> PyScalar("", "")]
Returned(value) == [raises |-> FALSE, exc |-> NoExc, value |-> value]

\* Faulty variant of AfterAwait: a 2xx body that is not JSON is returned
\* as raw text instead of raising.
AfterAwait_raw_text(ans) ==
    IF ans.kind = "error" THEN Raised(ans.exc)
    ELSE IF ~is_success(ans.status_code) THEN Raised(HTTPStatusError)
    ELSE IF ~json_ok(ans.text) THEN Returned(PyScalar("str", ans.text))
    ELSE Returned(json(ans.text))

AfterAwait(ans) ==
    IF ans.kind = "error" THEN Raised(ans.exc)
    ELSE IF ~is_success(ans.status_code) THEN Raised(HTTPStatusError)
    ELSE IF ~json_ok(ans.text) THEN Raised(JSONDecodeError)
    ELSE Returned(json(ans.text))

\* The exception classes `except httpx.RequestError` catches.
IsRequestError(exc) == exc.type \in {"ConnectError", "ReadTimeout"}

(***************************************************************************)
(* Results.  A text is the sequence of the fragments its f-string joins.   *)
(***************************************************************************)
TextContent(text) == [type |-> "text", text |-> text]

\* The outcome of a handler: the content list it returns, or the exception
\* that leaves it.
Returns(content) == [content |-> content, raised |-> NoExc]
Escapes(exc) == [content |-> <<>>, raised |-> exc]

\* return [TextContent(type="text", text=str(result))]
success_result(value) == Returns(<<TextContent(str(value))>>)

\* except httpx.HTTPStatusError
http_error_result(ans) ==
    Returns(<<TextContent(<<"HTTP error: ", ToString(ans.status_code), " - ",
                           ans.text>>)>>)

\* Faulty variant of request_error_result: the message of the exception is dropped.
request_error_result_bare(exc) ==
    Returns(<<TextContent(<<"Request error">>)>>)

\* except httpx.RequestError
request_error_result(exc) ==
    Returns(<<TextContent(<<"Request error: ", exc.msg>>)>>)

\* except Exception
generic_error_result(name, exc) ==
    Returns(<<TextContent(<<"Error executing tool ", name, ": ", exc.msg>>)>>)

\* Faulty variant of call_tool: no final `except Exception`.
call_tool_no_generic(name, end, ans) ==
    IF ~end.raises THEN success_result(end.value)
    ELSE IF end.exc.type = "HTTPStatusError" THEN http_error_result(ans)
    ELSE IF IsRequestError(end.exc) THEN request_error_result(end.exc)
    ELSE Escapes(end.exc)

\* call_tool of src/main.py: try _execute_tool, convert every exception.
call_tool(name, end, ans) ==
    IF ~end.raises THEN success_result(end.value)
    ELSE IF end.exc.type = "HTTPStatusError" THEN http_error_result(ans)
    ELSE IF IsRequestError(end.exc) THEN request_error_result(end.exc)
    ELSE generic_error_result(name, end.exc)

\* A per-backend handler of src/tools: no try/except.
call_backend_tool(name, end, ans) ==
    IF ~end.raises THEN success_result(end.value) ELSE Escapes(end.exc)

Outcome(handler, name, end, ans) ==
    IF handler = "call_tool" THEN call_tool(name, end, ans)
    ELSE call_backend_tool(name, end, ans)

(***************************************************************************)
(* State machine.  env is the process environment at startup, config the   *)
(* value load_config() returned in main(), startup how far main() has got  *)
(* ("serving" once the server runs), listed the result of the last         *)
(* list_tools() call (<<>> before the first), and inv[i] the i-th          *)
(* invocation slot: a tool call is idle, awaiting the transport (its only  *)
(* suspension point), or done.  failures counts the invocations that have  *)
(* ended in an error so far (MaxFailures stands for "that many or more");  *)
(* inv[i].before is its value when the invocation began and inv[i].waited  *)
(* the seconds the invocation has been waiting for the transport.  Both    *)
(* are observations: no handler reads them.                                *)
(***************************************************************************)
MaxInFlight == 2
MaxFailures == 2

InvIds == 1..MaxInFlight

Idle ==
    [pc |-> "idle", handler |-> "", name |-> "", arguments |-> EmptyDict,
     client |-> "none", requests |-> <<>>, answer |-> NoAnswer,
     content |-> <<>>, raised |-> NoExc, waited |-> 0, before |-> 0]

ToolNames == {TOOLS[t].name : t \in DOMAIN TOOLS}
UNKNOWN_NAMES == {"bogus", ""}
NAMES == ToolNames \cup UNKNOWN_NAMES

Properties(name) ==
    IF name \in ToolNames
    THEN (CHOOSE t \in {TOOLS[x] : x \in DOMAIN TOOLS} : t.name = name).properties
    ELSE {"source", "job_id"}

\* The required keys of a tool's input schema.
Required(name) ==
    (CHOOSE t \in {TOOLS[x] : x \in DOMAIN TOOLS} : t.name = name).required

\* The argument objects a caller may send with name: any subset of the
\* schema's keys, with or without a key the schema does not declare.
ArgumentsFor(name) == Dicts(Properties(name) \cup {"extra"})

\* client.post / client.get / client.delete: the request goes out once.
Issue(requests, req) == Append(requests, req)

Init ==
    /\ env \in Environments
    /\ config = load_config(env).config
    /\ startup = "serving"
    /\ listed = <<>>
    /\ inv = [i \in InvIds |-> Idle]
    /\ failures = 0

\* Faulty variant of ListTools: the catalogue leaves out the tools that
\* are being executed.
ListTools_without_running ==
    /\ listed' = SelectSeq(list_tools,
                           LAMBDA t : \A i \in InvIds : inv[i].name # t.name)
    /\ UNCHANGED <<env, config, startup, inv, failures>>

\* list_tools()
ListTools ==
    /\ listed' = list_tools
    /\ UNCHANGED <<env, config, startup, inv, failures>>

\* Faulty variant of Invoke: the handler reads the environment again on
\* every call instead of using the configuration loaded at startup.
Invoke_rereads_environment(i, handler, name, arguments) ==
    /\ inv[i].pc = "idle"
    /\ LET plan == Dispatch(handler, name, arguments, load_config(env).config)
           out == Outcome(handler, name, Raised(plan.exc), NoAnswer)
       IN  inv' = [inv EXCEPT ![i] =
             IF plan.raises
             THEN [pc |-> "done", handler |-> handler, name |-> name,
                   arguments |-> arguments,
                   client |-> IF handler = "call_tool" THEN "closed" ELSE "none",
                   requests |-> <<>>, answer |-> NoAnswer,
                   content |-> out.content, raised |-> out.raised,
                   waited |-> 0, before |-> failures]
             ELSE [pc |-> "awaiting", handler |-> handler, name |-> name,
                   arguments |-> arguments, client |-> "open",
                   requests |-> Issue(<<>>, plan.req), answer |-> NoAnswer,
                   content |-> <<>>, raised |-> NoExc,
                   waited |-> 0, before |-> failures]]
    /\ UNCHANGED <<env, config, startup, listed, failures>>

\* A handler is invoked and runs up to its await: it fails before sending
\* (missing key, unknown name) or hands one request to the transport.
\* _execute_tool opens its client before the chain (async with), the
\* per-backend functions only once their arguments have been read.
Invoke(i, handler, name, arguments) ==
    /\ inv[i].pc = "idle"
    /\ LET plan == Dispatch(handler, name, arguments, config)
           out == Outcome(handler, name, Raised(plan.exc), NoAnswer)
       IN  inv' = [inv EXCEPT ![i] =
             IF plan.raises
             THEN [pc |-> "done", handler |-> handler, name |-> name,
                   arguments |-> arguments,
                   client |-> IF handler = "call_tool" THEN "closed" ELSE "none",
                   requests |-> <<>>, answer |-> NoAnswer,
                   content |-> out.content, raised |-> out.raised,
                   waited |-> 0, before |-> failures]
             ELSE [pc |-> "awaiting", handler |-> handler, name |-> name,
                   arguments |-> arguments, client |-> "open",
                   requests |-> Issue(<<>>, plan.req), answer |-> NoAnswer,
                   content |-> <<>>, raised |-> NoExc,
                   waited |-> 0, before |-> failures]]
    /\ UNCHANGED <<env, config, startup, listed, failures>>

\* Faulty variant of Resume: the invocations share one client, and a
\* network failure of one ends every request in flight.
Resume_shared_client(i, ans) ==
    /\ inv[i].pc = "awaiting"
    /\ inv' = [j \in InvIds |->
          IF inv[j].pc = "awaiting" /\ (j = i \/ ans.kind = "error")
          THEN LET out == Outcome(inv[j].handler, inv[j].name, AfterAwait(ans), ans)
               IN  [inv[j] EXCEPT !.pc = "done", !.client = "closed",
                                  !.answer = ans, !.content = out.content,
                                  !.raised = out.raised]
          ELSE inv[j]]
    /\ UNCHANGED <<env, config, startup, listed, failures>>

\* Faulty variant of Resume: the client is closed by a call at the end of
\* the body rather than by `async with`, so an exception skips it.
Resume_leaks(i, ans) ==
    /\ inv[i].pc = "awaiting"
    /\ LET end == AfterAwait(ans)
           out == Outcome(inv[i].handler, inv[i].name, end, ans)
       IN  inv' = [inv EXCEPT ![i].pc = "done",
                              ![i].client = IF end.raises THEN "open" ELSE "closed",
                              ![i].answer = ans, ![i].content = out.content,
                              ![i].raised = out.raised]
    /\ UNCHANGED <<env, config, startup, listed, failures>>

\* Faulty variant of Resume: a failed request is sent again.
Resume_retry(i, ans) ==
    /\ inv[i].pc = "awaiting"
    /\ LET out == Outcome(inv[i].handler, inv[i].name, AfterAwait(ans), ans)
       IN  inv' = [inv EXCEPT ![i] =
             IF AfterAwait(ans).raises /\ Len(inv[i].requests) < 3
             THEN [@ EXCEPT !.requests = Issue(@, inv[i].requests[1])]
             ELSE [@ EXCEPT !.pc = "done", !.client = "closed",
                            !.answer = ans, !.content = out.content,
                            !.raised = out.raised]]
    /\ UNCHANGED <<env, config, startup, listed, failures>>

\* The transport answers (or fails): the handler resumes after its await,
\* leaves the client scope and ends.
Resume(i, ans) ==
    /\ inv[i].pc = "awaiting"
    /\ LET out == Outcome(inv[i].handler, inv[i].name, AfterAwait(ans), ans)
       IN  inv' = [inv EXCEPT ![i].pc = "done", ![i].client = "closed",
                              ![i].answer = ans, ![i].content = out.content,
                              ![i].raised = out.raised]
    /\ UNCHANGED <<env, config, startup, listed, failures>>

\* The invocation ended in an error: an exception left the handler, or the
\* text is one of call_tool's three error texts.
IsErrorResult(r) ==
    /\ r.pc = "done"
    /\ \/ r.raised # NoExc
       \/ /\ Len(r.content) = 1
          /\ r.content[1].text[1] \in
                 {"HTTP error: ", "Request error: ", "Error executing tool "}

\* Faulty variant of Finish: after an invocation that ended in an error the
\* server falls back to the default configuration.
Finish_resets(i) ==
    /\ inv[i].pc = "done"
    /\ inv' = [inv EXCEPT ![i] = Idle]
    /\ failures' = IF IsErrorResult(inv[i]) /\ failures < MaxFailures
                   THEN failures + 1 ELSE failures
    /\ config' = IF IsErrorResult(inv[i]) THEN load_config(EmptyDict).config
                 ELSE config
    /\ UNCHANGED <<env, startup, listed>>

\* The server has passed the outcome to the caller; nothing of the
\* invocation is kept.
Finish(i) ==
    /\ inv[i].pc = "done"
    /\ inv' = [inv EXCEPT ![i] = Idle]
    /\ failures' = IF IsErrorResult(inv[i]) /\ failures < MaxFailures
                   THEN failures + 1 ELSE failures
    /\ UNCHANGED <<env, config, startup, listed>>

CallTool(i) ==
    /\ inv[i].pc = "idle"
    /\ \E name \in NAMES : \E arguments \in ArgumentsFor(name) :
          Invoke(i, "call_tool", name, arguments)

CallBackendTool(i) ==
    /\ inv[i].pc = "idle"
    /\ \E handler \in HANDLERS \ {"call_tool"} : \E name \in NAMES :
          \E arguments \in ArgumentsFor(name) :
              Invoke(i, handler, name, arguments)

TransportAnswers(i) ==
    /\ inv[i].pc = "awaiting"
    /\ \E ans \in ANSWERS : Resume(i, ans)

\* One invocation at a time, every input.
Next ==
    \/ ListTools
    \/ CallTool(1)
    \/ CallBackendTool(1)
    \/ TransportAnswers(1)
    \/ Finish(1)

Spec == Init /\ [][Next]_vars

\* Several invocations in flight at once, interleaved at their awaits.
\* The inputs are a sample of the sequential ones: a tool with a JSON
\* body and a required argument, a tool without arguments, an unknown name;
\* a success, an HTTP error and a timeout.
CONCURRENT_NAMES == {"image_info", "monitor_health", "bogus"}
CONCURRENT_ANSWERS ==
    {Response(200, "{\"ok\": true}"), Response(500, "boom"),
     Failure("ReadTimeout", "")}

CallToolConcurrently(i) ==
    /\ inv[i].pc = "idle"
    /\ \E name \in CONCURRENT_NAMES :
          \E arguments \in Dicts(IF name \in ToolNames THEN Required(name) ELSE {}) :
              Invoke(i, "call_tool", name, arguments)

NextConcurrent ==
    \E i \in InvIds :
        \/ CallToolConcurrently(i)
        \/ \E ans \in CONCURRENT_ANSWERS : Resume(i, ans)
        \/ Finish(i)

SpecConcurrent == Init /\ [][NextConcurrent]_vars

\* One invocation at a time against a backend that answers with every
\* JSON body of JSON_BODIES, or with a body that is not JSON.
RELAY_ANSWERS ==
    {Response(st, b) : st \in {200, 201, 404}, b \in JSON_BODIES \cup {"boom"}}

NextRelay ==
    \/ CallToolConcurrently(1)
    \/ \E ans \in RELAY_ANSWERS : Resume(1, ans)
    \/ Finish(1)

SpecRelay == Init /\ [][NextRelay]_vars

\* The process environment changes while the server runs (os.environ is
\* writable by anything in the process); one invocation at a time.
ChangeEnvironment ==
    /\ startup = "serving"
    /\ env' \in Environments \ {env}
    /\ UNCHANGED <<config, startup, listed, inv, failures>>

NextEnvironment ==
    \/ ChangeEnvironment
    \/ ListTools
    \/ CallToolConcurrently(1)
    \/ \E ans \in CONCURRENT_ANSWERS : Resume(1, ans)
    \/ Finish(1)

SpecEnvironment == Init /\ [][NextEnvironment]_vars

(***************************************************************************)
(* Time.  httpx.AsyncClient(timeout=60.0) arms a timer for the phase the   *)
(* request is waiting in; a backend that stays silent for that long makes  *)
(* the awaited call raise a timeout exception (ReadTimeout, a              *)
(* RequestError).  Time is counted in steps of ten seconds.  The clock     *)
(* keeps running and the event loop fires a timer that is due: both are    *)
(* weakly fair.  Whether the backend answers in time is not.               *)
(***************************************************************************)
TIMEOUT == Failure("ReadTimeout", "")

\* The timeout the transport enforces for the request in flight.
Deadline(r) == r.requests[Len(r.requests)].timeout

Tick(i) ==
    /\ inv[i].pc = "awaiting"
    /\ inv[i].waited < Deadline(inv[i])
    /\ inv' = [inv EXCEPT ![i].waited = @ + 10]
    /\ UNCHANGED <<env, config, startup, listed, failures>>

\* The backend answers, or the connection fails, before the timer is due.
RespondsInTime(i) ==
    /\ inv[i].pc = "awaiting"
    /\ inv[i].waited < Deadline(inv[i])
    /\ \E ans \in CONCURRENT_ANSWERS \ {TIMEOUT} : Resume(i, ans)

\* Faulty variant of TimeoutElapses: the client was built with timeout=None,
\* so no timer is ever due.
TimeoutElapses_none(i) ==
    /\ inv[i].pc = "awaiting"
    /\ inv[i].waited > Deadline(inv[i])
    /\ Resume(i, TIMEOUT)

\* The timer is due: the awaited call raises the timeout exception.
TimeoutElapses(i) ==
    /\ inv[i].pc = "awaiting"
    /\ inv[i].waited >= Deadline(inv[i])
    /\ Resume(i, TIMEOUT)

NextTimed ==
    \/ CallToolConcurrently(1)
    \/ Tick(1)
    \/ RespondsInTime(1)
    \/ TimeoutElapses(1)
    \/ Finish(1)

SpecTimed ==
    /\ Init
    /\ [][NextTimed]_vars
    /\ WF_vars(Tick(1))
    /\ WF_vars(TimeoutElapses(1))

(***************************************************************************)
(* Startup.  main() calls load_config() first; the server is created and   *)
(* serves only if it returns.  The process environments are every choice   *)
(* of leaving a variable unset or setting it to one of a few texts: a      *)
(* well-formed value, the empty text, a text of the wrong form.            *)
(***************************************************************************)
CONFIG_VARIABLES ==
    {"AUDIO_ID_URL", "MONITOR_URL", "RABBITMQ_HOST", "RABBITMQ_PORT",
     "SAMBA_PASSWORD", "LOG_LEVEL"}

EnvValues(name) ==
    CASE name = "AUDIO_ID_URL" -> {"http://10.0.0.5:9000", "", "not a url"}
      [] name = "MONITOR_URL" -> {"http://gw:8080/monitor"}
      [] name = "RABBITMQ_HOST" -> {"mq.local"}
      [] name = "RABBITMQ_PORT" -> {"5673", "", "abc"}
      [] name = "SAMBA_PASSWORD" -> {"s3cret"}
      [] name = "LOG_LEVEL" -> {"DEBUG", "verbose"}

RECURSIVE Envs(_)
Envs(names) ==
    IF names = {} THEN {[k \in {} |-> ""]}
    ELSE LET name == CHOOSE n \in names : TRUE
             rest == Envs(names \ {name})
         IN  rest \cup {e @@ (name :> v) : e \in rest, v \in EnvValues(name)}

CONFIG_ENVIRONMENTS == Envs(CONFIG_VARIABLES)

InitConfig ==
    /\ env \in CONFIG_ENVIRONMENTS
    /\ config = NoConfig
    /\ startup = "starting"
    /\ listed = <<>>
    /\ inv = [i \in InvIds |-> Idle]
    /\ failures = 0

\* config = load_config() in main(): the exception, if any, ends the
\* process before a server exists.
LoadConfig ==
    /\ startup = "starting"
    /\ LET loaded == load_config(env)
       IN  /\ startup' = IF loaded.raises THEN "failed" ELSE "serving"
           /\ config' = loaded.config
    /\ UNCHANGED <<env, listed, inv, failures>>

NextConfig == LoadConfig

SpecConfig == InitConfig /\ [][NextConfig]_vars

TypeOK ==
    /\ env \in Environments \cup CONFIG_ENVIRONMENTS
    /\ startup \in {"starting", "serving", "failed"}
    /\ config \in IF startup = "serving"
                 THEN {load_config(e).config : e \in Environments \cup {env}}
                 ELSE {NoConfig}
    /\ listed \in {<<>>, TOOLS}
    /\ \A i \in InvIds :
        /\ inv[i].pc \in {"idle", "awaiting", "done"}
        /\ inv[i].client \in {"none", "open", "closed"}
        /\ inv[i].handler \in HANDLERS \cup {""}
        /\ inv[i].before \in 0..MaxFailures
        /\ inv[i].waited \in 0..60
    /\ failures \in 0..MaxFailures

(***************************************************************************)
(* Properties.                                                             *)
(***************************************************************************)
Names(tools) == {tools[t].name : t \in DOMAIN tools}

PairwiseDistinct(tools) ==
    \A a, b \in DOMAIN tools : a # b => tools[a].name # tools[b].name

\* Each listed name is compared by exactly one branch of the chain, and
\* each branch name is listed.
MatchesBranches(tools) ==
    /\ \A t \in DOMAIN tools :
          Cardinality({b \in DOMAIN BRANCHES : BRANCHES[b] = tools[t].name}) = 1
    /\ \A b \in DOMAIN BRANCHES : BRANCHES[b] \in Names(tools)

\* The invocation ended in the final else of _execute_tool.
UnknownToolResult(r) ==
    /\ r.pc = "done"
    /\ r.content = <<TextContent(<<"Error executing tool ", r.name, ": ",
                                  "Unknown tool: " \o r.name>>)>>

\* call_tool treats a name as known exactly when the last list_tools()
\* result holds it.
ListedIffDispatched ==
    \A i \in InvIds :
        (listed # <<>> /\ inv[i].handler = "call_tool") =>
            (inv[i].name \in Names(listed) <=> ~UnknownToolResult(inv[i]))

\* C1 (as stated): list_tools() returns 16 tool definitions with pairwise
\* distinct names, each matching exactly one dispatcher branch, and every
\* dispatcher branch name is listed.
C1_SixteenTools ==
    listed # <<>> =>
        /\ Len(listed) = 16
        /\ PairwiseDistinct(listed)
        /\ MatchesBranches(listed)
        /\ ListedIffDispatched

\* C1 (amended): list_tools() returns 15 tool definitions with pairwise
\* distinct names; every returned name matches exactly one branch of
\* _execute_tool, every branch name is returned, and call_tool reaches its
\* "Unknown tool" branch exactly for the names that are not returned.
C1_FifteenTools ==
    listed # <<>> =>
        /\ Len(listed) = 15
        /\ PairwiseDistinct(listed)
        /\ MatchesBranches(listed)
        /\ ListedIffDispatched

C1_Witness ==
    /\ listed = TOOLS
    /\ inv[1].handler = "call_tool"
    /\ inv[1].name = "monitor_metrics"
    /\ inv[1].pc = "done"
    /\ inv[1].answer.status_code = 200

\* The method column of the tool table.
RouteMethod(name) ==
    CASE name \in {"audio_identify", "image_optimize", "image_info",
                   "overlay_create", "overlay_preview", "dispatcher_enqueue"}
           -> "POST"
      [] name = "dispatcher_cancel" -> "DELETE"
      [] OTHER -> "GET"

\* The path column of the tool table, {job_id} replaced by the argument.
RoutePath(name, arguments) ==
    CASE name = "audio_identify" -> "/identify"
      [] name = "audio_status" -> "/status/" \o PyFormat(arguments["job_id"])
      [] name = "image_optimize" -> "/optimize"
      [] name = "image_info" -> "/info"
      [] name = "overlay_create" -> "/create"
      [] name = "overlay_list_templates" -> "/templates"
      [] name = "overlay_preview" -> "/preview"
      [] name = "dispatcher_enqueue" -> "/enqueue"
      [] name = "dispatcher_queue_status" -> "/queue/status"
      [] name = "dispatcher_job_status" ->
             "/job/" \o PyFormat(arguments["job_id"])
      [] name = "dispatcher_cancel" -> "/job/" \o PyFormat(arguments["job_id"])
      [] name = "monitor_health" -> "/health"
      [] name = "monitor_stream_status" -> "/stream/status"
      [] name = "monitor_failures" -> "/failures"
      [] name = "monitor_metrics" -> "/metrics"

ServiceUrls(cfg) ==
    {cfg.services.audio_id_url, cfg.services.image_opt_url,
     cfg.services.overlay_url, cfg.services.dispatcher_url,
     cfg.services.monitor_url}

\* The invocation was made through call_tool of src/main.py.
ViaCallTool(r) == r.pc # "idle" /\ r.handler = "call_tool"

\* C2: for every known tool name, call_tool invoked with exactly the
\* required arguments issues exactly one outbound request, whose method and
\* path are the tool's row of the table, {job_id} replaced by the argument;
\* the count stays one once the transport has answered.
C2_OneRequestOnRoute ==
    \A i \in InvIds :
        (/\ ViaCallTool(inv[i])
         /\ inv[i].name \in ToolNames
         /\ DOMAIN inv[i].arguments = Required(inv[i].name)) =>
            /\ Len(inv[i].requests) = 1
            /\ inv[i].requests[1].method = RouteMethod(inv[i].name)
            /\ \E base \in ServiceUrls(config) :
                  inv[i].requests[1].url =
                      base \o RoutePath(inv[i].name, inv[i].arguments)

C2_Witness ==
    /\ ViaCallTool(inv[1])
    /\ inv[1].name = "dispatcher_cancel"
    /\ inv[1].arguments = ("job_id" :> JStr("j1"))
    /\ inv[1].pc = "done"
    /\ Len(inv[1].requests) = 1
    /\ inv[1].requests[1].method = "DELETE"
    /\ inv[1].requests[1].url = "http://dispatcher:8000/job/j1"

\* The fragment occurs in the text.
Contains(text, fragment) == \E k \in DOMAIN text : text[k] = fragment

\* The invocation returned exactly one text content and raised nothing.
ReturnedOneText(r) ==
    /\ r.raised = NoExc
    /\ Len(r.content) = 1
    /\ r.content[1].type = "text"

NonSuccessAnswer(r) ==
    /\ r.pc = "done"
    /\ r.answer.kind = "response"
    /\ ~(r.answer.status_code \in 200..299)

\* C3: for every known tool, when the backend answers the request with a
\* non-2xx status S and raw body B, call_tool raises nothing and returns an
\* error text that contains both S and B.
C3_HttpErrorEmbedsStatusAndBody ==
    \A i \in InvIds :
        (ViaCallTool(inv[i]) /\ NonSuccessAnswer(inv[i])) =>
            /\ inv[i].name \in ToolNames
            /\ ReturnedOneText(inv[i])
            /\ inv[i].content[1].text[1] = "HTTP error: "
            /\ Contains(inv[i].content[1].text,
                        ToString(inv[i].answer.status_code))
            /\ Contains(inv[i].content[1].text, inv[i].answer.text)

C3_Witness ==
    /\ ViaCallTool(inv[1])
    /\ inv[1].name = "image_info"
    /\ inv[1].answer = Response(500, "boom")
    /\ inv[1].content = <<TextContent(<<"HTTP error: ", "500", " - ", "boom">>)>>

NetworkFailure(r) == r.pc = "done" /\ r.answer.kind = "error"

\* C4: for every known tool, when the request fails at the network level
\* (connection refused, timeout, DNS failure), call_tool raises nothing and
\* returns the text "Request error: " followed by the message of the
\* network exception.
C4_RequestErrorEmbedsMessage ==
    \A i \in InvIds :
        (ViaCallTool(inv[i]) /\ NetworkFailure(inv[i])) =>
            /\ inv[i].name \in ToolNames
            /\ ReturnedOneText(inv[i])
            /\ inv[i].content[1].text = <<"Request error: ", inv[i].answer.exc.msg>>

C4_Witness ==
    /\ ViaCallTool(inv[1])
    /\ inv[1].name = "overlay_preview"
    /\ inv[1].answer = Failure("ConnectError", "All connection attempts failed")
    /\ inv[1].content[1].text =
           <<"Request error: ", "All connection attempts failed">>

\* C5: call_tool invoked with a name that is not a registered tool name
\* ends at once, for every argument object, with an error text embedding
\* the exception message ("Unknown tool: <name>"); no exception leaves
\* call_tool and no request is sent.
C5_UnknownToolIsErrorResult ==
    \A i \in InvIds :
        (ViaCallTool(inv[i]) /\ inv[i].name \notin ToolNames) =>
            /\ inv[i].pc = "done"
            /\ ReturnedOneText(inv[i])
            /\ inv[i].content[1].text[1] = "Error executing tool "
            /\ Contains(inv[i].content[1].text, "Unknown tool: " \o inv[i].name)

C5_Witness ==
    /\ ViaCallTool(inv[1])
    /\ inv[1].name = "bogus"
    /\ "extra" \in DOMAIN inv[1].arguments
    /\ inv[1].content =
           <<TextContent(<<"Error executing tool ", "bogus", ": ",
                           "Unknown tool: bogus">>)>>

MissingRequired(r) ==
    /\ r.name \in ToolNames
    /\ \E k \in Required(r.name) : k \notin DOMAIN r.arguments

\* C6: call_tool invoked with a known tool name and a required argument
\* of that tool missing (source, job_id, template, data, job_type) raises
\* nothing: it returns the generic error text, whose message names a
\* missing key.
C6_MissingArgumentIsErrorResult ==
    \A i \in InvIds :
        (ViaCallTool(inv[i]) /\ MissingRequired(inv[i])) =>
            /\ inv[i].pc = "done"
            /\ ReturnedOneText(inv[i])
            /\ \E k \in Required(inv[i].name) \ DOMAIN inv[i].arguments :
                  inv[i].content[1].text =
                      <<"Error executing tool ", inv[i].name, ": ",
                        "'" \o k \o "'">>

C6_Witness ==
    /\ ViaCallTool(inv[1])
    /\ inv[1].name = "dispatcher_enqueue"
    /\ DOMAIN inv[1].arguments = {"source", "options"}
    /\ inv[1].content =
           <<TextContent(<<"Error executing tool ", "dispatcher_enqueue", ": ",
                           "'job_type'">>)>>

\* The invocation handed a request to the transport.
Sent(r) == r.pc # "idle" /\ Len(r.requests) >= 1

\* The sent dict holds key exactly when the caller supplied it, with the
\* caller's value.
ForwardedIffSupplied(dict, arguments, key) ==
    /\ key \in DOMAIN dict.value <=> key \in DOMAIN arguments
    /\ key \in DOMAIN arguments =>
          key \in DOMAIN dict.value /\ dict.value[key] = arguments[key]

\* C7: for image_optimize the outbound JSON body contains width exactly
\* when the caller supplied width and height exactly when the caller supplied
\* height, independently, each supplied value forwarded unchanged.
C7_WidthHeightIffSupplied ==
    \A i \in InvIds :
        (Sent(inv[i]) /\ inv[i].name = "image_optimize") =>
            /\ inv[i].requests[1].json.present
            /\ ForwardedIffSupplied(inv[i].requests[1].json,
                                    inv[i].arguments, "width")
            /\ ForwardedIffSupplied(inv[i].requests[1].json,
                                    inv[i].arguments, "height")

\* C8: for dispatcher_enqueue the outbound JSON body contains options
\* exactly when the caller supplied options, forwarded verbatim.
C8_OptionsIffSupplied ==
    \A i \in InvIds :
        (Sent(inv[i]) /\ inv[i].name = "dispatcher_enqueue") =>
            /\ inv[i].requests[1].json.present
            /\ ForwardedIffSupplied(inv[i].requests[1].json,
                                    inv[i].arguments, "options")

\* C9: for monitor_failures the query parameters always contain limit,
\* the supplied limit or 10 when none is supplied, and contain service
\* exactly when the caller supplied service, with the supplied value.
C9_LimitDefaultServiceIffSupplied ==
    \A i \in InvIds :
        (Sent(inv[i]) /\ inv[i].name = "monitor_failures") =>
            /\ inv[i].requests[1].params.present
            /\ "limit" \in DOMAIN inv[i].requests[1].params.value
            /\ inv[i].requests[1].params.value["limit"] =
                   Get(inv[i].arguments, "limit", JInt(10))
            /\ ForwardedIffSupplied(inv[i].requests[1].params,
                                    inv[i].arguments, "service")

\* The chain of _execute_tool tests presence ("width" in arguments), so
\* through call_tool the optional fields width, height, options and service
\* are forwarded exactly when supplied, falsy values included.
CallToolForwardsOptionals ==
    \A i \in InvIds :
        (ViaCallTool(inv[i]) /\ Sent(inv[i])) =>
            /\ inv[i].name = "image_optimize" =>
                  /\ ForwardedIffSupplied(inv[i].requests[1].json,
                                          inv[i].arguments, "width")
                  /\ ForwardedIffSupplied(inv[i].requests[1].json,
                                          inv[i].arguments, "height")
            /\ inv[i].name = "dispatcher_enqueue" =>
                  ForwardedIffSupplied(inv[i].requests[1].json,
                                       inv[i].arguments, "options")
            /\ inv[i].name = "monitor_failures" =>
                  ForwardedIffSupplied(inv[i].requests[1].params,
                                       inv[i].arguments, "service")

\* C10: every invocation of call_tool makes at most one outbound
\* request, whatever its outcome: after an HTTP error status, a network error
\* or a timeout the request is not sent again.
C10_AtMostOneRequest ==
    \A i \in InvIds :
        ViaCallTool(inv[i]) =>
            /\ Len(inv[i].requests) <= 1
            /\ inv[i].pc = "done" /\ inv[i].answer # NoAnswer =>
                  Len(inv[i].requests) = 1

C10_Witness ==
    /\ ViaCallTool(inv[1])
    /\ inv[1].pc = "done"
    /\ inv[1].answer = Failure("ReadTimeout", "")
    /\ Len(inv[1].requests) = 1

(***************************************************************************)
(* Timeouts, failures and what follows them                                *)
(***************************************************************************)
\* The invocation waited the whole timeout of its request and call_tool
\* returned the network-error text for the timeout exception.
TimedOutResult(r) ==
    /\ r.pc = "done"
    /\ Len(r.requests) = 1
    /\ r.waited = Deadline(r)
    /\ r.answer = TIMEOUT
    /\ r.raised = NoExc
    /\ r.content = <<TextContent(<<"Request error: ", TIMEOUT.exc.msg>>)>>

\* The invocation ended on an answer that came before the timeout.
AnsweredInTime(r) ==
    /\ r.pc = "done"
    /\ Len(r.requests) = 1
    /\ r.answer # TIMEOUT
    /\ r.waited < Deadline(r)

\* C11: an invocation that is waiting for its backend always completes: the
\* backend answers before the timeout of the request, or, when it stays
\* silent, call_tool returns a network-error result once that timeout has
\* elapsed.  It never waits forever.
C11_SilentBackendEndsInRequestError ==
    (inv[1].pc = "awaiting")
        ~> (AnsweredInTime(inv[1]) \/ TimedOutResult(inv[1]))

C11_Witness == TimedOutResult(inv[1])

\* Two invocations were given the same tool name and arguments.
SameInvocation(r, q) ==
    /\ r.pc # "idle" /\ q.pc # "idle"
    /\ r.handler = q.handler /\ r.name = q.name /\ r.arguments = q.arguments

\* Two invocations were handled alike: the same request, and on the same
\* answer the same result.
HandledAlike(r, q) ==
    /\ r.requests = q.requests
    /\ (r.pc = "done" /\ q.pc = "done" /\ r.answer = q.answer)
           => (r.content = q.content /\ r.raised = q.raised)

\* C12: after invocations that ended in an error (HTTP error, network error,
\* unknown tool or missing argument) the server still accepts an
\* invocation, and handles it exactly as the same invocation begun when
\* nothing had failed yet.
C12_ServesAfterFailures ==
    /\ \A i \in InvIds :
          (failures > 0 /\ inv[i].pc = "idle") => ENABLED CallToolConcurrently(i)
    /\ \A i, j \in InvIds :
          SameInvocation(inv[i], inv[j]) => HandledAlike(inv[i], inv[j])

C12_Witness ==
    \E i, j \in InvIds :
        /\ SameInvocation(inv[i], inv[j])
        /\ inv[i].before = 0 /\ inv[j].before > 0
        /\ inv[i].pc = "done" /\ inv[j].pc = "done"
        /\ inv[i].answer = inv[j].answer
        /\ inv[i].answer = Response(200, "{\"ok\": true}")

(***************************************************************************)
(* The text of a success                                                   *)
(***************************************************************************)
\* The members a text shows, read off its pieces from piece k on: a name
\* stands between quotes before each ": ", the value after it.
RECURSIVE MembersShown(_, _)
MembersShown(text, k) ==
    IF k > Len(text) THEN <<>>
    ELSE IF text[k] = ": "
         THEN <<Member(text[k - 2], text[k + 1])>> \o MembersShown(text, k + 1)
         ELSE MembersShown(text, k + 1)

\* The elements a text shows between [ and ], in order.
ElementsShown(text) ==
    SelectSeq(SubSeq(text, 2, Len(text) - 1), LAMBDA piece : piece # ", ")

\* A backend answered the invocation with a 2xx status and a JSON body.
RelayedJson(r) ==
    /\ ViaCallTool(r) /\ r.pc = "done"
    /\ r.answer.kind = "response"
    /\ is_success(r.answer.status_code)
    /\ r.answer.text \in JSON_BODIES

\* C13: on a 2xx answer with a JSON body call_tool returns one text that is
\* the decoded value written out: for an object exactly its members, with
\* their names and values, in the order of the body; for an array exactly
\* its elements in order; for a scalar the scalar.
C13_SuccessTextShowsDecodedValue ==
    \A i \in InvIds :
        RelayedJson(inv[i]) =>
            /\ inv[i].raised = NoExc
            /\ Len(inv[i].content) = 1
            /\ LET text == inv[i].content[1].text
                   value == json(inv[i].answer.text)
               IN  CASE value.type = "dict" ->
                            /\ text[1] = "{" /\ text[Len(text)] = "}"
                            /\ MembersShown(text, 1) = value.members
                     [] value.type = "list" ->
                            /\ text[1] = "[" /\ text[Len(text)] = "]"
                            /\ ElementsShown(text)
                                   = [k \in 1..Len(value.members) |->
                                          value.members[k].value]
                     [] OTHER -> text = <<value.scalar>>

C13_Witness ==
    /\ RelayedJson(inv[1])
    /\ Len(json(inv[1].answer.text).members) = 3
    /\ Len(MembersShown(inv[1].content[1].text, 1)) = 3

(***************************************************************************)
(* Invocations in flight at the same time                                  *)
(***************************************************************************)
\* What the invocation sent and returned follows from its own tool name,
\* its own arguments and the answer to its own request.
OwnOutcome(r) ==
    LET plan == Dispatch(r.handler, r.name, r.arguments, config)
    IN  \/ r.pc = "idle"
        \/ /\ plan.raises
           /\ r.pc = "done" /\ r.requests = <<>> /\ r.answer = NoAnswer
           /\ Returns(r.content) =
                  Outcome(r.handler, r.name, Raised(plan.exc), NoAnswer)
        \/ /\ ~plan.raises
           /\ r.requests = <<plan.req>>
           /\ \/ r.pc = "awaiting" /\ r.answer = NoAnswer
              \/ /\ r.pc = "done" /\ r.answer # NoAnswer
                 /\ Returns(r.content) =
                        Outcome(r.handler, r.name, AfterAwait(r.answer), r.answer)

\* C14: with several invocations in flight, in any interleaving, a step of
\* one invocation (its start, the answer, timeout or failure of its
\* request, its end) leaves every other invocation exactly as it was, and
\* what the invocation itself sent and returned follows from its own name,
\* arguments and answer alone.
C14_InvocationsIndependent ==
    [][\A i \in InvIds :
          inv'[i] # inv[i] =>
              /\ \A j \in InvIds \ {i} : inv'[j] = inv[j]
              /\ OwnOutcome(inv'[i])
              /\ config' = config]_vars

C14_Witness ==
    \E i, j \in InvIds :
        /\ i # j
        /\ inv[i].pc = "done" /\ inv[i].answer = TIMEOUT
        /\ inv[j].pc = "done" /\ inv[j].answer = Response(200, "{\"ok\": true}")
        /\ inv[j].content = <<TextContent(<<"{", "'", "ok", "'", ": ", "True", "}">>)>>

\* The invocations whose client is open, and those in flight.
OpenClients == {i \in InvIds : inv[i].client = "open"}
InFlight == {i \in InvIds : inv[i].pc = "awaiting"}

\* C15: every call_tool invocation has acquired a client of its own and has
\* released it when call_tool returns, whatever the outcome; a client is
\* open only while its invocation is in flight, so no client is open when
\* none is in flight and there are never more open clients than
\* invocations in flight.
C15_ClientScopedToInvocation ==
    /\ \A i \in InvIds :
          /\ ViaCallTool(inv[i]) => inv[i].client \in {"open", "closed"}
          /\ inv[i].pc = "done" => inv[i].client # "open"
          /\ (ViaCallTool(inv[i]) /\ inv[i].pc = "done") => inv[i].client = "closed"
          /\ inv[i].pc = "idle" => inv[i].client = "none"
    /\ OpenClients \subseteq InFlight
    /\ Cardinality(OpenClients) <= Cardinality(InFlight)
    /\ (InFlight = {}) => (OpenClients = {})

C15_Witness ==
    \E i, j \in InvIds :
        /\ inv[i].pc = "awaiting" /\ inv[i].client = "open"
        /\ inv[j].pc = "done" /\ inv[j].client = "closed"
        /\ inv[j].answer = Response(500, "boom")

(***************************************************************************)
(* Timeouts                                                                *)
(***************************************************************************)
\* The timeout, in seconds, the catalogue of tools states for a tool.
StatedTimeout(name) ==
    CASE name \in {"audio_identify", "image_info", "overlay_create",
                   "overlay_preview"} -> 30
      [] name = "image_optimize" -> 60
      [] OTHER -> 10

\* The per-backend handlers of src/tools apply the stated timeouts.
BackendHandlersApplyStatedTimeouts ==
    \A i \in InvIds :
        (inv[i].pc # "idle" /\ inv[i].handler # "call_tool") =>
            \A k \in 1..Len(inv[i].requests) :
                inv[i].requests[k].timeout = StatedTimeout(inv[i].name)

\* C16: the timeout of the request a tool sends is 30 s for audio_identify,
\* image_info, overlay_create and overlay_preview, 60 s for image_optimize
\* and 10 s for every other tool.
C16_TimeoutPerTool ==
    \A i \in InvIds :
        inv[i].pc # "idle" =>
            \A k \in 1..Len(inv[i].requests) :
                inv[i].requests[k].timeout = StatedTimeout(inv[i].name)

(***************************************************************************)
(* Configuration                                                           *)
(***************************************************************************)
\* The configuration holds, for every variable, the text the environment
\* sets or else the documented default; the port is that text as a number.
FollowsEnvironment(cfg, e) ==
    /\ cfg.services.audio_id_url = getenv(e, "AUDIO_ID_URL", "http://audio-id:8000")
    /\ cfg.services.image_opt_url = getenv(e, "IMAGE_OPT_URL", "http://image-opt:8000")
    /\ cfg.services.overlay_url = getenv(e, "OVERLAY_URL", "http://overlay:8000")
    /\ cfg.services.dispatcher_url = getenv(e, "DISPATCHER_URL", "http://dispatcher:8000")
    /\ cfg.services.monitor_url = getenv(e, "MONITOR_URL", "http://monitor:8000")
    /\ cfg.rabbitmq.host = getenv(e, "RABBITMQ_HOST", "rabbitmq")
    /\ ("RABBITMQ_PORT" \notin DOMAIN e) => cfg.rabbitmq.port = 5672
    /\ cfg.rabbitmq.user = getenv(e, "RABBITMQ_USER", "guest")
    /\ cfg.rabbitmq.password = getenv(e, "RABBITMQ_PASSWORD", "guest")
    /\ cfg.samba.host = getenv(e, "SAMBA_HOST", "samba")
    /\ cfg.samba.share = getenv(e, "SAMBA_SHARE", "media")
    /\ cfg.samba.user = getenv(e, "SAMBA_USER", "guest")
    /\ cfg.samba.password = getenv(e, "SAMBA_PASSWORD", "")
    /\ cfg.log_level = getenv(e, "LOG_LEVEL", "INFO")

\* Whenever load_config() returns, the configuration follows the
\* environment.
ReturnedConfigFollowsEnvironment ==
    startup = "serving" => FollowsEnvironment(config, env)

\* C17: load_config() returns a configuration in every environment, with
\* each documented variable unset or set to any text: it never fails, an
\* unset variable gives the documented default and a set URL variable is
\* taken as given.
C17_LoadConfigNeverFails ==
    /\ startup # "failed"
    /\ startup = "serving" => FollowsEnvironment(config, env)

(***************************************************************************)
(* Defaults of optional arguments                                          *)
(***************************************************************************)
\* The sent dict holds key with the caller's value when the caller
\* supplied one, and with the default otherwise.
SuppliedOrDefault(dict, arguments, key, default) ==
    /\ dict.present
    /\ key \in DOMAIN dict.value
    /\ dict.value[key] =
           IF key \in DOMAIN arguments THEN arguments[key] ELSE default

\* C18: the outbound payload always holds every optional argument that has
\* a documented default (audio_identify duration=10; image_optimize
\* format="webp", quality=85; overlay_create width=1920, height=1080;
\* dispatcher_enqueue priority=5; monitor_metrics period="1h"): the default
\* when the caller omitted the argument, the caller's value when supplied.
C18_DefaultsAlwaysInPayload ==
    \A i \in InvIds :
        Sent(inv[i]) =>
            LET req == inv[i].requests[1]
                arguments == inv[i].arguments
            IN  /\ inv[i].name = "audio_identify" =>
                      SuppliedOrDefault(req.json, arguments, "duration", JInt(10))
                /\ inv[i].name = "image_optimize" =>
                      /\ SuppliedOrDefault(req.json, arguments, "format", JStr("webp"))
                      /\ SuppliedOrDefault(req.json, arguments, "quality", JInt(85))
                /\ inv[i].name = "overlay_create" =>
                      /\ SuppliedOrDefault(req.json, arguments, "width", JInt(1920))
                      /\ SuppliedOrDefault(req.json, arguments, "height", JInt(1080))
                /\ inv[i].name = "dispatcher_enqueue" =>
                      SuppliedOrDefault(req.json, arguments, "priority", JInt(5))
                /\ inv[i].name = "monitor_metrics" =>
                      SuppliedOrDefault(req.params, arguments, "period", JStr("1h"))

C18_Witness ==
    /\ ViaCallTool(inv[1]) /\ Sent(inv[1])
    /\ inv[1].name = "overlay_create"
    /\ "width" \in DOMAIN inv[1].arguments
    /\ inv[1].arguments["width"] = JInt(0)
    /\ "height" \notin DOMAIN inv[1].arguments
    /\ inv[1].requests[1].json.value["width"] = JInt(0)
    /\ inv[1].requests[1].json.value["height"] = JInt(1080)

(***************************************************************************)
(* Backends                                                                *)
(***************************************************************************)
\* The backend a tool belongs to by the prefix of its name.
BackendOf(name) ==
    CASE name \in {"audio_identify", "audio_status"} -> "audio"
      [] name \in {"image_optimize", "image_info"} -> "image"
      [] name \in {"overlay_create", "overlay_list_templates",
                   "overlay_preview"} -> "overlay"
      [] name \in {"dispatcher_enqueue", "dispatcher_queue_status",
                   "dispatcher_job_status", "dispatcher_cancel"} -> "dispatcher"
      [] name \in {"monitor_health", "monitor_stream_status",
                   "monitor_failures", "monitor_metrics"} -> "monitor"

BACKENDS == {"audio", "image", "overlay", "dispatcher", "monitor"}

\* The configured base URL of a backend.
BaseUrl(cfg, backend) ==
    CASE backend = "audio" -> cfg.services.audio_id_url
      [] backend = "image" -> cfg.services.image_opt_url
      [] backend = "overlay" -> cfg.services.overlay_url
      [] backend = "dispatcher" -> cfg.services.dispatcher_url
      [] backend = "monitor" -> cfg.services.monitor_url

\* The URL is a route of the tool table under the base URL.
UnderBase(url, base, arguments) ==
    \E name \in ToolNames :
        /\ Required(name) \subseteq DOMAIN arguments
        /\ url = base \o RoutePath(name, arguments)

\* C19: every request a tool sends goes to the base URL of the one
\* backend the tool's name prefix stands for (audio_, image_, overlay_,
\* dispatcher_, monitor_), on the tool's own path, and to no other
\* backend's base URL.
C19_ToolGoesToItsBackend ==
    [][\A i \in InvIds :
          (inv'[i].requests # inv[i].requests /\ inv'[i].name \in ToolNames) =>
              \A k \in 1..Len(inv'[i].requests) :
                  LET url == inv'[i].requests[k].url
                      own == BaseUrl(config, BackendOf(inv'[i].name))
                  IN  /\ url = own \o RoutePath(inv'[i].name, inv'[i].arguments)
                      /\ \A other \in BACKENDS :
                            BaseUrl(config, other) # own =>
                                ~UnderBase(url, BaseUrl(config, other),
                                           inv'[i].arguments)]_vars

C19_Witness ==
    /\ ViaCallTool(inv[1]) /\ Sent(inv[1])
    /\ inv[1].name = "monitor_health"
    /\ config.services.monitor_url = "http://gw:8080/monitor"
    /\ config.services.dispatcher_url = "http://gw:8080/jobs"
    /\ inv[1].requests[1].url = "http://gw:8080/monitor/health"

(***************************************************************************)
(* The catalogue over time                                                 *)
(***************************************************************************)
\* C20: list_tools() returns the same definitions in the same order
\* whenever it is called, before, while and after call_tool invocations
\* run, and it changes nothing: no invocation, no configuration, no
\* request; nor does an invocation change what list_tools() returns.
C20_ListToolsStaticAndPure ==
    [][/\ listed' \in {listed, TOOLS}
       /\ listed = TOOLS => listed' = TOOLS
       /\ listed' # listed =>
             /\ inv' = inv
             /\ config' = config /\ env' = env
             /\ failures' = failures]_vars

C20_Witness ==
    /\ listed = TOOLS
    /\ failures > 0
    /\ inv[1].pc = "awaiting"
    /\ Len(inv[1].requests) = 1

(***************************************************************************)
(* The two dispatchers                                                     *)
(***************************************************************************)
\* The per-backend handler of src/tools that serves the tool.
HandlerOf(name) ==
    CASE BackendOf(name) = "audio" -> "call_audio_tool"
      [] BackendOf(name) = "image" -> "call_image_tool"
      [] BackendOf(name) = "overlay" -> "call_overlay_tool"
      [] BackendOf(name) = "dispatcher" -> "call_dispatcher_tool"
      [] BackendOf(name) = "monitor" -> "call_monitor_tool"

\* The invocation went to the per-backend handler that serves its tool.
ViaOwnBackendHandler(r) ==
    /\ r.pc # "idle"
    /\ r.name \in ToolNames
    /\ r.handler = HandlerOf(r.name)

\* Two requests agree in method, URL, body and query parameters.
SameRequest(a, b) ==
    /\ a.method = b.method /\ a.url = b.url
    /\ a.json = b.json /\ a.params = b.params

\* What the per-backend handler sent is what _execute_tool sends for the
\* same name and arguments.
SameRequestsAsCallTool(r) ==
    LET plan == _execute_tool(r.name, r.arguments, config)
    IN  IF plan.raises THEN r.requests = <<>>
        ELSE /\ Len(r.requests) = 1
             /\ SameRequest(r.requests[1], plan.req)

\* What the per-backend handler yielded is what call_tool returns for the
\* same name, arguments and answer.
SameResultAsCallTool(r) ==
    LET plan == _execute_tool(r.name, r.arguments, config)
        expected == IF plan.raises
                    THEN call_tool(r.name, Raised(plan.exc), NoAnswer)
                    ELSE call_tool(r.name, AfterAwait(r.answer), r.answer)
    IN  r.pc = "done" =>
            (r.content = expected.content /\ r.raised = expected.raised)

\* No supplied value of width, height, options or service is falsy.
NoFalsyOptional(arguments) ==
    \A key \in {"width", "height", "options", "service"} \cap DOMAIN arguments :
        Truthy(arguments[key])

\* Where the two dispatchers do agree: the request, when no optional value
\* is falsy, and the result of a 2xx answer with a JSON body.
HandlersAgreeOnTruthyAndSuccess ==
    \A i \in InvIds :
        ViaOwnBackendHandler(inv[i]) =>
            /\ NoFalsyOptional(inv[i].arguments) =>
                  SameRequestsAsCallTool(inv[i])
            /\ (inv[i].pc = "done" /\ inv[i].raised = NoExc) =>
                  SameResultAsCallTool(inv[i])

\* C21: for every tool name, argument object and backend answer the
\* per-backend handler of src/tools sends the same request (method, URL,
\* body, query parameters) and yields the same result as call_tool of
\* main.py, falsy optional values and failing requests included.
C21_HandlersEquivalent ==
    \A i \in InvIds :
        ViaOwnBackendHandler(inv[i]) =>
            /\ SameRequestsAsCallTool(inv[i])
            /\ SameResultAsCallTool(inv[i])

(***************************************************************************)
(* Base URLs over time                                                     *)
(***************************************************************************)
\* C22: the base URLs are the ones resolved when the configuration was
\* loaded: no step of list_tools or call_tool changes the configuration,
\* and every request an invocation issues goes to the base URL the
\* configuration holds, after earlier invocations and after the process
\* environment has changed.
C22_BaseUrlsFixedAtStartup ==
    [][/\ config' = config
       /\ \A i \in InvIds :
             (inv'[i].requests # inv[i].requests /\ inv'[i].name \in ToolNames) =>
                 \A k \in 1..Len(inv'[i].requests) :
                     inv'[i].requests[k].url =
                         BaseUrl(config, BackendOf(inv'[i].name))
                             \o RoutePath(inv'[i].name, inv'[i].arguments)]_vars

C22_Witness ==
    /\ load_config(env).config.services # config.services
    /\ failures > 0
    /\ inv[1].pc = "awaiting"
    /\ inv[1].name = "image_info"
    /\ inv[1].requests[1].url = config.services.image_opt_url \o "/info"
    /\ inv[1].requests[1].url
           # load_config(env).config.services.image_opt_url \o "/info"

(***************************************************************************)
(* The classes of results                                                  *)
(***************************************************************************)
\* The class a returned text belongs to, by how it begins.
ClassOfText(text) ==
    CASE text[1] = "HTTP error: " -> "http_error"
      [] text[1] = "Request error: " -> "request_error"
      [] text[1] = "Error executing tool " -> "generic_error"
      [] OTHER -> "response"

\* The class the outcome of a finished invocation calls for, decided in
\* this order: answered 2xx with a JSON body; answered with another status;
\* failed at the network level; everything else.
ClassOfOutcome(r) ==
    IF /\ r.answer.kind = "response"
       /\ r.answer.status_code \in 200..299
       /\ r.answer.text \in JSON_BODIES
    THEN "response"
    ELSE IF r.answer.kind = "response" /\ r.answer.status_code \notin 200..299
    THEN "http_error"
    ELSE IF r.answer.kind = "error" THEN "request_error"
    ELSE "generic_error"

\* C23: every finished invocation of call_tool has returned exactly one
\* text payload and raised nothing, and the payload is of the one class the
\* outcome calls for: the rendered response, an "HTTP error" text, a
\* "Request error" text or the generic "Error executing tool" text, the
\* last also for a 2xx answer whose body is not JSON.
C23_OneTextOfOneClass ==
    \A i \in InvIds :
        (ViaCallTool(inv[i]) /\ inv[i].pc = "done") =>
            /\ inv[i].raised = NoExc
            /\ Len(inv[i].content) = 1
            /\ inv[i].content[1].type = "text"
            /\ Len(inv[i].content[1].text) >= 1
            /\ ClassOfText(inv[i].content[1].text) = ClassOfOutcome(inv[i])
            /\ ClassOfOutcome(inv[i]) = "response" =>
                  inv[i].content[1].text = str(json(inv[i].answer.text))

C23_Witness ==
    /\ ViaCallTool(inv[1]) /\ inv[1].pc = "done"
    /\ inv[1].name = "monitor_health"
    /\ inv[1].answer = Response(201, "boom")
    /\ inv[1].content =
           <<TextContent(<<"Error executing tool ", "monitor_health", ": ",
                           "Expecting value: line 1 column 1 (char 0)">>)>>

(***************************************************************************)
(* Failures before the request                                             *)
(***************************************************************************)
\* The invocation cannot build its request: the handler does not know the
\* tool name, or a required argument is missing.
FailsBeforeRequest(r) ==
    /\ r.pc # "idle"
    /\ \/ r.name \notin ToolNames
       \/ MissingRequired(r)
       \/ r.handler # "call_tool" /\ r.handler # HandlerOf(r.name)

\* C24: an invocation whose tool name is unknown or which lacks a required
\* argument is over at once and has issued no request to any backend.
C24_NoRequestBeforeFailure ==
    \A i \in InvIds :
        FailsBeforeRequest(inv[i]) =>
            /\ inv[i].pc = "done"
            /\ inv[i].requests = <<>>
            /\ inv[i].answer = NoAnswer

C24_Witness ==
    /\ ViaCallTool(inv[1]) /\ inv[1].pc = "done"
    /\ inv[1].name = "image_optimize"
    /\ DOMAIN inv[1].arguments = {"width", "quality"}
    /\ inv[1].requests = <<>>
    /\ inv[1].content =
           <<TextContent(<<"Error executing tool ", "image_optimize", ": ",
                           "'source'">>)>>

(***************************************************************************)
(* Undeclared arguments                                                    *)
(***************************************************************************)
\* The argument object without the keys the tool's input schema does not
\* declare.
Declared(name, arguments) ==
    [k \in DOMAIN arguments \cap Properties(name) |-> arguments[k]]

WITHOUT_PAYLOAD ==
    {"audio_status", "overlay_list_templates", "dispatcher_queue_status",
     "dispatcher_job_status", "dispatcher_cancel", "monitor_health",
     "monitor_stream_status"}

\* C25: the request of a tool is the request the same handler issues for
\* the declared part of the argument object alone, so two invocations that
\* agree on every declared key issue identical requests whatever other
\* keys they carry; the tools without payload send neither a body nor
\* query parameters.
C25_UndeclaredArgumentsNotForwarded ==
    \A i \in InvIds :
        (inv[i].pc # "idle" /\ inv[i].name \in ToolNames) =>
            LET plan == Dispatch(inv[i].handler, inv[i].name,
                                 Declared(inv[i].name, inv[i].arguments), config)
            IN  /\ inv[i].requests =
                       IF plan.raises THEN <<>> ELSE <<plan.req>>
                /\ \A k \in 1..Len(inv[i].requests) :
                      /\ inv[i].requests[k].json.present =>
                            DOMAIN inv[i].requests[k].json.value
                                \subseteq Properties(inv[i].name)
                      /\ inv[i].requests[k].params.present =>
                            DOMAIN inv[i].requests[k].params.value
                                \subseteq Properties(inv[i].name)
                      /\ inv[i].name \in WITHOUT_PAYLOAD =>
                            /\ ~inv[i].requests[k].json.present
                            /\ ~inv[i].requests[k].params.present

C25_Witness ==
    /\ ViaCallTool(inv[1]) /\ Sent(inv[1])
    /\ inv[1].name = "overlay_preview"
    /\ "extra" \in DOMAIN inv[1].arguments
    /\ inv[1].requests[1].json.present
    /\ DOMAIN inv[1].requests[1].json.value = {"template", "data"}

====
